---- MODULE Spec2Model ----
(***************************************************************************)
(* Model of the local fallback memory store of openmemory-mcp              *)
(* (simple_memory.py, class LocalMemoryFallback) and of the whole-file     *)
(* clear of the web UI (ui.py, api_clear).                                 *)
(*                                                                         *)
(* The store is one JSON file that every call re-reads and store() and     *)
(* clear rewrite as a whole.  A string is a sequence of one-character      *)
(* strings; a score count/words is kept as the pair [num, den].            *)
(***************************************************************************)
EXTENDS Integers, Sequences, FiniteSets, TLC

\* ------------------------------------------------------------------ bounds
MaxRecords == 2      \* store() is not called on a list already this long
MaxCalls == 3        \* length of the recorded history of store() results
MaxLimit == 2        \* search limits tried: 1 .. MaxLimit and DefaultLimit

\* --------------------------------------------------------- program constants
DefaultLimit == 5

\* ------------------------------------------------------------------ strings
React == <<"W", "e", " ", "d", "e", "c", "i", "d", "e", "d", " ", "t", "o", " ", "u", "s", "e", " ", "R", "e", "a", "c", "t", " ", "f", "o", "r", " ", "t", "h", "e", " ", "f", "r", "o", "n", "t", "e", "n", "d", " ", "f", "r", "a", "m", "e", "w", "o", "r", "k">>
AlphaBetaAlpha == <<"a", "l", "p", "h", "a", " ", "b", "e", "t", "a", " ", "a", "l", "p", "h", "a">>
Frontend == <<"f", "r", "o", "n", "t", "e", "n", "d">>
Alpha == <<"a", "l", "p", "h", "a">>

UpperChars == <<"A","B","C","D","E","F","G","H","I","J","K","L","M","N","O","P","Q","R","S","T","U","V","W","X","Y","Z">>
LowerChars == <<"a","b","c","d","e","f","g","h","i","j","k","l","m","n","o","p","q","r","s","t","u","v","w","x","y","z">>

\* str.lower() on one character
UpperToLower ==
    [c \in {UpperChars[i] : i \in 1..Len(UpperChars)} |->
        LowerChars[CHOOSE i \in 1..Len(UpperChars) : UpperChars[i] = c]]

LowerChar(c) == IF c \in DOMAIN UpperToLower THEN UpperToLower[c] ELSE c

\* str.lower()
Lower(s) == [i \in 1..Len(s) |-> LowerChar(s[i])]

\* sub in s
Contains(s, sub) ==
    \E i \in 1..(Len(s) - Len(sub) + 1) : SubSeq(s, i, i + Len(sub) - 1) = sub

\* s.count(sub): non-overlapping occurrences, scanned from the left;
\* the empty string occurs len(s) + 1 times
RECURSIVE CountFrom(_, _, _)
CountFrom(s, sub, i) ==
    IF i + Len(sub) - 1 > Len(s) THEN 0
    ELSE IF SubSeq(s, i, i + Len(sub) - 1) = sub
         THEN 1 + CountFrom(s, sub, i + Len(sub))
         ELSE CountFrom(s, sub, i + 1)

Count(s, sub) == IF sub = <<>> THEN Len(s) + 1 ELSE CountFrom(s, sub, 1)

IsSpace(c) == c = " "

\* len(s.split()): number of maximal runs of non-whitespace characters
RECURSIVE SplitLenFrom(_, _, _)
SplitLenFrom(s, i, inWord) ==
    IF i > Len(s) THEN 0
    ELSE IF IsSpace(s[i]) THEN SplitLenFrom(s, i + 1, FALSE)
         ELSE (IF inWord THEN 0 ELSE 1) + SplitLenFrom(s, i + 1, TRUE)

SplitLenSeparators(s) == Cardinality({i \in 1..Len(s) : IsSpace(s[i])})
SplitLen(s) == SplitLenFrom(s, 1, FALSE)

\* ------------------------------------------------------------------ records
MetaEmpty == "{}"
MetaSet == "{'k': {1}}"          \* a mapping json.dump cannot serialize

Serializable(metadata) == metadata # MetaSet

MemoryIdFromZero(n) == <<"local_", n - 1>>
\* f"local_{n}"
MemoryId(n) == <<"local_", n>>

\* hasattr(Path, 'ctime') is False, so the timestamp is str('unknown')
Timestamp == "unknown"

NewMemory(memory_id, content, metadata) ==
    [id |-> memory_id, content |-> content, metadata |-> metadata,
     timestamp |-> Timestamp]

\* ------------------------------------------------------------------ the file
Absent == [state |-> "absent", data |-> <<>>]
Truncated == [state |-> "truncated", data |-> <<>>]
\* a file holding a proper prefix of a JSON array: the records written whole
Partial(written) == [state |-> "partial", data |-> written]
Json(memories) == [state |-> "json", data |-> memories]

\* _load_memories: the parsed list, or [] when the file is missing or
\* json.load raises
LoadMemoriesLenient(f) == IF f.state \in {"json", "partial"} THEN f.data ELSE <<>>
LoadMemories(f) == IF f.state = "json" THEN f.data ELSE <<>>

AllSerializable(memories) ==
    \A i \in 1..Len(memories) : Serializable(memories[i].metadata)

\* json.dump(memories, f) into the file f just opened for writing: the whole
\* array, or a proper prefix of it when the encoder raises part-way
Dump(f, memories) ==
    IF AllSerializable(memories) THEN Json(memories)
    ELSE Partial(SubSeq(memories, 1,
             (CHOOSE i \in 1..Len(memories) :
                 /\ ~Serializable(memories[i].metadata)
                 /\ \A j \in 1..(i - 1) : Serializable(memories[j].metadata)) - 1))

AppendedNot(memories, new_memory) == memories
\* memories.append(new_memory)
Appended(memories, new_memory) == Append(memories, new_memory)

\* ------------------------------------------------------------------ search
Zero == [num |-> 0, den |-> 1]

\* content.count(query_lower) / len(content.split()) if content else 0
\* (content is the lower-cased content; den = 0 is ZeroDivisionError)
ScoreByLength(content, query_lower) ==
    IF content # <<>>
    THEN [num |-> Count(content, query_lower), den |-> Len(content)]
    ELSE Zero
Score(content, query_lower) ==
    IF content # <<>>
    THEN [num |-> Count(content, query_lower), den |-> SplitLen(content)]
    ELSE Zero

\* a >= b for two scores with positive denominators
ScoreGeq(a, b) == a.num * b.den >= b.num * a.den
ScoreEq(a, b) == a.num * b.den = b.num * a.den

MatchesSwapped(memory, query_lower) == Contains(query_lower, Lower(memory.content))
\* query_lower in memory.get('content', '').lower()
Matches(memory, query_lower) == Contains(Lower(memory.content), query_lower)

\* the contents and queries the calls are made with
SerialContents ==
    {<<>>, <<" ">>, <<"A", "a", "a", " ", "b">>, AlphaBetaAlpha, React}
SerialQueries == {<<>>, <<"a">>, <<"A", "A">>, <<" ">>, Alpha, Frontend}
OverlapContents == {<<"a">>, <<"b">>}
OverlapQueries == {<<"a">>}

\* the body of the loop for one record, lines 173-176: whether the record
\* matches and the score it gets
Examine(content, query_lower) ==
    [hit |-> Matches([content |-> content], query_lower),
     score |-> Score(Lower(content), query_lower)]

\* Examine as a table over the contents and queries above, computed once
Examined ==
    [content \in SerialContents \cup OverlapContents |->
        [query \in SerialQueries \cup OverlapQueries |->
            Examine(content, Lower(query))]]

\* the loop over memories: the list of matches in file order
RECURSIVE MatchList(_, _, _)
MatchList(memories, query, i) ==
    IF i > Len(memories) THEN <<>>
    ELSE IF Examined[memories[i].content][query].hit
         THEN <<[content |-> memories[i].content,
                 score |-> Examined[memories[i].content][query].score,
                 id |-> memories[i].id]>>
              \o MatchList(memories, query, i + 1)
         ELSE MatchList(memories, query, i + 1)

\* the division raises for a matching record whose content is not empty and
\* has no word
Raises(memories, query) ==
    \E i \in 1..Len(memories) :
        /\ Examined[memories[i].content][query].hit
        /\ memories[i].content # <<>>
        /\ Examined[memories[i].content][query].score.den = 0

InsertUnstable(sorted, m) ==
    LET k == Cardinality({j \in 1..Len(sorted) :
                 ScoreGeq(sorted[j].score, m.score) /\ ~ScoreEq(sorted[j].score, m.score)})
    IN SubSeq(sorted, 1, k) \o <<m>> \o SubSeq(sorted, k + 1, Len(sorted))
\* m goes behind every element whose score is >= its own
Insert(sorted, m) ==
    LET k == Cardinality({j \in 1..Len(sorted) : ScoreGeq(sorted[j].score, m.score)})
    IN SubSeq(sorted, 1, k) \o <<m>> \o SubSeq(sorted, k + 1, Len(sorted))

\* matches.sort(key=lambda x: x['score'], reverse=True): stable, descending
RECURSIVE SortFrom(_, _, _)
SortFrom(matches, i, sorted) ==
    IF i > Len(matches) THEN sorted
    ELSE SortFrom(matches, i + 1, Insert(sorted, matches[i]))

SortByScore(matches) == SortFrom(matches, 1, <<>>)

SliceAll(s, limit) == s
\* s[:limit]
Slice(s, limit) ==
    IF limit >= 0
    THEN SubSeq(s, 1, IF limit < Len(s) THEN limit ELSE Len(s))
    ELSE SubSeq(s, 1, IF Len(s) + limit > 0 THEN Len(s) + limit ELSE 0)

\* search_local on the list the file holds
SearchResult(memories, query, limit) ==
    IF Raises(memories, query)
    THEN [raised |-> "ZeroDivisionError", out |-> <<>>]
    ELSE [raised |-> "none",
          out |-> Slice(SortByScore(MatchList(memories, query, 1)), limit)]

\* ------------------------------------------------------------------ inputs
Procs == {"p1", "p2"}

\* serial = TRUE: one caller, every call runs to its end before the next one
\* starts; serial = FALSE: overlapping requests
Limits == (1..MaxLimit) \cup {DefaultLimit}
Metadatas == {MetaEmpty, MetaSet}

VARIABLES
    file,       \* the content of memories.json
    pc,         \* pc[p]: where caller p is inside its call
    local,      \* local[p]: the local variables of p's call
    ret,        \* ret[p]: what p's last call returned, until p's next call
    nStores,    \* number of store() calls that have returned
    cleared,    \* whether a clear has rewritten the file
    now,        \* the clock: the number of store() calls made so far
    serial

vars == <<file, pc, local, ret, nStores, cleared, now, serial>>

Contents == IF serial THEN SerialContents ELSE OverlapContents
Queries == IF serial THEN SerialQueries ELSE OverlapQueries
SearchLimits == IF serial THEN Limits ELSE {DefaultLimit}

NoLocal == [op |-> "none"]
NoRet == [op |-> "none"]

InitWith(s) ==
    /\ file = Absent
    /\ pc = [p \in Procs |-> "idle"]
    /\ local = [p \in Procs |-> NoLocal]
    /\ ret = [p \in Procs |-> NoRet]
    /\ nStores = 0
    /\ cleared = FALSE
    /\ now = 0
    /\ serial = s

Init == InitWith(FALSE)
InitSerial == InitWith(TRUE)

\* p may start a call
Start(p) == pc[p] = "idle" /\ (serial => p = "p1")

\* callers that have loaded the file for a store() and not yet opened it
Loaded == {q \in Procs : pc[q] = "store_loaded"}

\* store(), lines 151-161: load, compute the id, append in memory
StoreLoad(p, content, metadata) ==
    /\ Start(p)
    /\ nStores < MaxCalls
    /\ Len(LoadMemories(file)) < MaxRecords
    /\ LET memories == LoadMemories(file)
           memory_id == MemoryId(Len(memories) + 1)
           new_memory == NewMemory(memory_id, content, metadata)
       IN local' = [q \in Procs |->
                      IF q = p
                      THEN [op |-> "store", called_at |-> now,
                            before |-> memories,
                            memory_id |-> memory_id, new_memory |-> new_memory,
                            memories |-> Appended(memories, new_memory),
                            racing |-> Loaded]
                      ELSE IF q \in Loaded
                           THEN [local[q] EXCEPT !.racing = @ \cup {p}]
                           ELSE local[q]]
    /\ pc' = [pc EXCEPT ![p] = "store_loaded"]
    /\ ret' = [ret EXCEPT ![p] = NoRet]
    /\ now' = now + 1
    /\ UNCHANGED <<file, nStores, cleared, serial>>

\* _save_memories, line 144: open(memory_file, 'w') truncates the file
StoreOpen(p) ==
    /\ pc[p] = "store_loaded"
    /\ file' = Truncated
    /\ pc' = [pc EXCEPT ![p] = "store_opened"]
    /\ UNCHANGED <<local, ret, nStores, cleared, now, serial>>

\* _save_memories, lines 145-147, and the return of store(), line 163: an
\* exception of json.dump is printed and swallowed, store() returns the id
StoreDump(p) ==
    /\ pc[p] = "store_opened"
    /\ file' = Dump(file, local[p].memories)
    /\ ret' = [ret EXCEPT ![p] =
                 [op |-> "store", raised |-> "none", id |-> local[p].memory_id,
                  called_at |-> local[p].called_at,
                  before |-> local[p].before,
                  new_memory |-> local[p].new_memory,
                  racing |-> local[p].racing,
                  saved |-> AllSerializable(local[p].memories)]]
    /\ pc' = [pc EXCEPT ![p] = "idle"]
    /\ local' = [local EXCEPT ![p] = NoLocal]
    /\ nStores' = nStores + 1
    /\ UNCHANGED <<cleared, now, serial>>

\* search_local(query, limit), lines 165-185
SearchLocal(p, query, limit) ==
    /\ Start(p)
    /\ LET r == SearchResult(LoadMemories(file), query, limit)
       IN ret' = [ret EXCEPT ![p] =
                    [op |-> "search", query |-> query, limit |-> limit,
                     seen |-> file, raised |-> r.raised, out |-> r.out]]
    /\ UNCHANGED <<file, pc, local, nStores, cleared, now, serial>>

\* get_all_local(), lines 187-189
GetAllLocal(p) ==
    /\ Start(p)
    /\ ret' = [ret EXCEPT ![p] =
                 [op |-> "get_all", seen |-> file, raised |-> "none",
                  out |-> LoadMemories(file)]]
    /\ UNCHANGED <<file, pc, local, nStores, cleared, now, serial>>

\* api_clear, lines 133-140 of ui.py: memory_file.exists()
ClearCheck(p) ==
    /\ Start(p)
    /\ IF file.state = "absent"
       THEN /\ ret' = [ret EXCEPT ![p] =
                         [op |-> "clear", message |-> "No memories to clear"]]
            /\ pc' = pc
       ELSE /\ ret' = [ret EXCEPT ![p] = NoRet]
            /\ pc' = [pc EXCEPT ![p] = "clear_checked"]
    /\ UNCHANGED <<file, local, nStores, cleared, now, serial>>

\* api_clear, line 136: open(memory_file, 'w')
ClearOpen(p) ==
    /\ pc[p] = "clear_checked"
    /\ file' = Truncated
    /\ cleared' = TRUE
    /\ pc' = [pc EXCEPT ![p] = "clear_opened"]
    /\ UNCHANGED <<local, ret, nStores, now, serial>>

\* api_clear, lines 137-138: json.dump([], f)
ClearDump(p) ==
    /\ pc[p] = "clear_opened"
    /\ file' = Dump(file, <<>>)
    /\ ret' = [ret EXCEPT ![p] =
                 [op |-> "clear", message |-> "All memories cleared"]]
    /\ pc' = [pc EXCEPT ![p] = "idle"]
    /\ UNCHANGED <<local, nStores, cleared, now, serial>>

Next ==
    \E p \in Procs :
        \/ \E content \in Contents, metadata \in Metadatas :
               StoreLoad(p, content, metadata)
        \/ StoreOpen(p)
        \/ StoreDump(p)
        \/ \E query \in Queries, limit \in SearchLimits : SearchLocal(p, query, limit)
        \/ GetAllLocal(p)
        \/ ClearCheck(p)
        \/ ClearOpen(p)
        \/ ClearDump(p)

\* overlapping requests
Spec == Init /\ [][Next]_vars
\* one caller at a time
SpecSerial == InitSerial /\ [][Next]_vars

\* ================================================================== claims
\* the one caller of SpecSerial
Caller == "p1"
R == ret[Caller]

\* what get_all_local() returns in the current state
GetAllNow == LoadMemories(file)

\* C1: with no concurrent writer, once store(content, metadata) has returned
\* id X, getAll() is the list getAll() returned before the call with exactly
\* one record appended, which has id X and the given content and metadata.
C1_StoreAppendsOneRecord ==
    (serial /\ R.op = "store") =>
        /\ Len(GetAllNow) = Len(R.before) + 1
        /\ SubSeq(GetAllNow, 1, Len(R.before)) = R.before
        /\ GetAllNow[Len(GetAllNow)].id = R.id
        /\ GetAllNow[Len(GetAllNow)].content = R.new_memory.content
        /\ GetAllNow[Len(GetAllNow)].metadata = R.new_memory.metadata

\* C2: from an empty store, the n-th of a series of sequential store() calls
\* returns "local_n".
C2_SerialIdsCountUp ==
    (serial /\ ~cleared /\ R.op = "store") => R.id = <<"local_", nStores>>

\* the last calls of p and q were store() calls that both loaded the file
\* before either opened it for writing
Overlapped(p, q) ==
    /\ p # q
    /\ ret[p].op = "store" /\ ret[q].op = "store"
    /\ q \in ret[p].racing /\ p \in ret[q].racing

\* the file holds the list one of the two calls loaded plus that call's
\* record: the append of the other call is not in it
OneSurvives(p, q) ==
    /\ (ret[p].saved /\ ret[q].saved) => file.state = "json"
    /\ file.state = "json" =>
          \/ file.data = Append(ret[p].before, ret[p].new_memory)
          \/ file.data = Append(ret[q].before, ret[q].new_memory)

\* C3 as stated: two store() calls that both load the file before either
\* saves return the same id, and the later writer discards the record of the
\* earlier one.
C3_OverlappingStoresSameId ==
    \A p, q \in Procs :
        Overlapped(p, q) => (ret[p].id = ret[q].id /\ OneSurvives(p, q))

\* C3: two store() calls that both load the file before either saves lose
\* the record of the earlier writer, and return the same id when they loaded
\* lists of the same length.
C3_OverlappingStoresLoseOne ==
    \A p, q \in Procs :
        Overlapped(p, q) =>
            /\ OneSurvives(p, q)
            /\ Len(ret[p].before) = Len(ret[q].before) => ret[p].id = ret[q].id

\* two overlapping store() calls of different contents have both returned
\* and the file holds the record of one of them only
C3_Witness ==
    \E p, q \in Procs :
        /\ Overlapped(p, q)
        /\ ret[p].saved /\ ret[q].saved
        /\ ret[p].id = ret[q].id
        /\ ret[p].new_memory.content # ret[q].new_memory.content
        /\ file = Json(Append(ret[q].before, ret[q].new_memory))
        /\ \A i \in 1..Len(file.data) :
               file.data[i].content # ret[p].new_memory.content

\* C4: when the write of the file fails during store(), the caller is told
\* (store() does not return normally) and the file is what the last
\* successful write left.
C4_WriteFailureSurfaced ==
    (serial /\ R.op = "store" /\ ~R.saved) =>
        /\ R.raised # "none"
        /\ file.state \in {"absent", "json"}
        /\ LoadMemories(file) = R.before

\* ---------------------------------------------------------------- search
\* sub is a substring of s
IsSubstring(sub, s) ==
    \E i \in 0..Len(s) : \E j \in i..Len(s) : SubSeq(s, i + 1, j) = sub

\* the largest number of pairwise disjoint occurrences of q in s
Occurrences(s, q) ==
    IF q = <<>> THEN Len(s) + 1
    ELSE LET at == {i \in 1..(Len(s) - Len(q) + 1) : SubSeq(s, i, i + Len(q) - 1) = q}
             disjoint == {S \in SUBSET at :
                             \A i, j \in S : i < j => i + Len(q) <= j}
         IN CHOOSE n \in 0..Len(s) :
                /\ \E S \in disjoint : Cardinality(S) = n
                /\ \A S \in disjoint : Cardinality(S) <= n

\* the number of whitespace-separated words of s
WordCount(s) ==
    Cardinality({i \in 1..Len(s) : s[i] # " " /\ (i = 1 \/ s[i - 1] = " ")})

\* p's last call was a search that returned normally
Searched(p) == ret[p].op = "search" /\ ret[p].raised = "none"

\* the positions in the list the search read of the records that match
Matching(p) ==
    {k \in 1..Len(LoadMemories(ret[p].seen)) :
        IsSubstring(Lower(ret[p].query), Lower(LoadMemories(ret[p].seen)[k].content))}

\* the position in the list the search read of the record with this id
PosOf(p, id) ==
    CHOOSE k \in 1..Len(LoadMemories(ret[p].seen)) :
        LoadMemories(ret[p].seen)[k].id = id

\* C5: search_local never returns a record whose lower-cased content does
\* not contain the lower-cased query, and every {content, id} it returns is
\* that of a record of the file.
C5_SearchExclusion ==
    \A p \in Procs : Searched(p) =>
        \A i \in 1..Len(ret[p].out) :
            /\ IsSubstring(Lower(ret[p].query), Lower(ret[p].out[i].content))
            /\ \E k \in 1..Len(LoadMemories(ret[p].seen)) :
                   /\ LoadMemories(ret[p].seen)[k].content = ret[p].out[i].content
                   /\ LoadMemories(ret[p].seen)[k].id = ret[p].out[i].id

\* a search has returned one record and skipped another
C5_Witness ==
    /\ Searched(Caller)
    /\ R.limit = DefaultLimit
    /\ Len(R.out) = 1
    /\ Len(LoadMemories(R.seen)) = 2

\* C6: the score of a returned record is the number of occurrences of the
\* lower-cased query in the lower-cased content divided by the number of
\* words of the content, 0 for the empty content; "alpha beta alpha"
\* searched for "alpha" scores 2/3.
C6_ScoreFormula ==
    \A p \in Procs : Searched(p) =>
        \A i \in 1..Len(ret[p].out) :
            LET r == ret[p].out[i]
            IN /\ r.score.den > 0
               /\ r.content = <<>> => r.score.num = 0
               /\ r.content # <<>> =>
                     r.score.num * WordCount(r.content) =
                         Occurrences(Lower(r.content), Lower(ret[p].query)) * r.score.den
               /\ (r.content = AlphaBetaAlpha /\ ret[p].query = Alpha) =>
                     r.score.num * 3 = 2 * r.score.den

\* "alpha beta alpha" has been found by the query "alpha"
C6_Witness ==
    /\ Searched(Caller)
    /\ R.query = Alpha
    /\ \E i \in 1..Len(R.out) : R.out[i].content = AlphaBetaAlpha

\* the store was empty, store(React) is the one call that wrote to it, and
\* search_local("frontend", 5) has returned
ReactScenario ==
    /\ serial /\ ~cleared /\ nStores = 1
    /\ R.op = "search" /\ R.query = Frontend /\ R.limit = DefaultLimit
    /\ R.seen.state = "json"
    /\ Len(R.seen.data) = 1
    /\ R.seen.data[1].content = React

\* C7 as stated: in the scenario the search returns exactly one record,
\* with the stored content and score 1/8.
C7_ScenarioOneEighth ==
    ReactScenario =>
        /\ R.raised = "none"
        /\ Len(R.out) = 1
        /\ R.out[1].content = React
        /\ R.out[1].score.num * 8 = R.out[1].score.den

\* C7: in the scenario the search returns exactly one record, with the
\* stored content and score 1/9 (the content has nine words).
C7_ScenarioOneNinth ==
    ReactScenario =>
        /\ R.raised = "none"
        /\ Len(R.out) = 1
        /\ R.out[1].content = React
        /\ R.out[1].score.den > 0
        /\ R.out[1].score.num * 9 = R.out[1].score.den

C7_Witness == ReactScenario /\ Len(R.out) = 1

\* C8: the results are in descending order of score, and results of equal
\* score are in the order of the file.
C8_OrderedByScoreThenFile ==
    \A p \in Procs : Searched(p) =>
        \A i, j \in 1..Len(ret[p].out) : i < j =>
            /\ ScoreGeq(ret[p].out[i].score, ret[p].out[j].score)
            /\ ScoreEq(ret[p].out[i].score, ret[p].out[j].score) =>
                   PosOf(p, ret[p].out[i].id) < PosOf(p, ret[p].out[j].id)

\* two records of equal score have been returned
C8_Witness ==
    /\ Searched(Caller)
    /\ Len(R.out) = 2
    /\ ScoreEq(R.out[1].score, R.out[2].score)
    /\ R.out[1].id # R.out[2].id

\* C9: for a positive limit the result is the first min(limit, number of
\* matching records) entries of the matches sorted by score: it has that
\* length and no record left out ranks before a returned one.
C9_LimitKeepsTheFirst ==
    \A p \in Procs : (Searched(p) /\ ret[p].limit > 0) =>
        LET n == Cardinality(Matching(p))
            returned == {PosOf(p, ret[p].out[i].id) : i \in 1..Len(ret[p].out)}
            memories == LoadMemories(ret[p].seen)
            query_lower == Lower(ret[p].query)
            Rank(k) == IF memories[k].content = <<>> THEN Zero
                       ELSE [num |-> Occurrences(Lower(memories[k].content), query_lower),
                             den |-> WordCount(memories[k].content)]
        IN /\ Len(ret[p].out) = (IF ret[p].limit < n THEN ret[p].limit ELSE n)
           /\ Len(ret[p].out) <= ret[p].limit
           /\ returned \subseteq Matching(p)
           /\ \A k \in Matching(p) \ returned : \A m \in returned :
                  /\ ScoreGeq(Rank(m), Rank(k))
                  /\ ScoreEq(Rank(m), Rank(k)) => m < k

\* more records match than the limit lets through
C9_Witness ==
    /\ Searched(Caller)
    /\ R.limit > 0
    /\ Cardinality(Matching(Caller)) > R.limit
    /\ Len(R.out) = R.limit

\* C10: get_all_local() on a missing or unparseable file returns [] without
\* raising and leaves the file as it is; a second call in a row returns
\* the same list.
C10_GetAllOfNoFile ==
    /\ [](\A p \in Procs :
            (serial /\ ret[p].op = "get_all") =>
                /\ file = ret[p].seen
                /\ ret[p].seen.state # "json" =>
                      (ret[p].out = <<>> /\ ret[p].raised = "none"))
    /\ [][\A p \in Procs :
            (ret[p].op = "get_all" /\ ret'[p].op = "get_all" /\ file' = file)
                => ret'[p].out = ret[p].out]_vars

\* get_all_local() has read a file that a failed write left unparseable
C10_Witness ==
    /\ R.op = "get_all"
    /\ R.seen.state = "partial"
    /\ R.seen.data # <<>>
    /\ R.out = <<>>

\* ---------------------------------------------------------------- the file
\* C11: in every state, the middle of a rewrite by store() or clear
\* included, the file is absent or holds a complete JSON array, and no
\* reader has seen it truncated or partial.
C11_FileAlwaysValid ==
    /\ file.state \in {"absent", "json"}
    /\ \A p \in Procs :
           ret[p].op \in {"get_all", "search"} =>
               ret[p].seen.state \in {"absent", "json"}

\* ---------------------------------------------------------------- the time
\* the string of a clock reading
ClockString(t) == ToString(t)

\* C12: every record store() appends has the time of the call as its
\* timestamp.
C12_TimestampIsCallTime ==
    \A p \in Procs :
        ret[p].op = "store" =>
            ret[p].new_memory.timestamp = ClockString(ret[p].called_at)

\* ------------------------------------------------------------ search errors
\* C13: for every query and every content store() can have written,
\* search_local returns a sequence and raises no error, and the sequence is
\* empty when no record matches.
C13_SearchNeverRaises ==
    \A p \in Procs :
        ret[p].op = "search" =>
            /\ ret[p].raised = "none"
            /\ Matching(p) = {} => ret[p].out = <<>>

\* -------------------------------------------------------------------- ids
\* C14: with one caller making store() calls and clears from an absent
\* file, the record at position i of the file has the id "local_i", so the
\* ids of the file are pairwise distinct, and the store() that follows a
\* clear gets "local_1" again.
C14_IdsArePositions ==
    /\ [](serial =>
            /\ \A i \in 1..Len(file.data) : file.data[i].id = <<"local_", i>>
            /\ \A i, j \in 1..Len(file.data) :
                   i # j => file.data[i].id # file.data[j].id
            /\ R.op = "store" => R.id = <<"local_", Len(R.before) + 1>>)
    /\ [][(serial /\ R.op = "clear" /\ local'[Caller].op = "store")
             => local'[Caller].memory_id = <<"local_", 1>>]_vars

\* a store() after a clear of a store that held records has returned
\* "local_1" for the second time and its record is the one of the file
C14_Witness ==
    /\ serial /\ cleared
    /\ nStores >= 2
    /\ R.op = "store" /\ R.saved
    /\ R.id = <<"local_", 1>>
    /\ file = Json(<<R.new_memory>>)

====
